---- MODULE Spec2Model ----
(***************************************************************************)
(* The unified store of the vibe-coded-apps database (SQLite file           *)
(* vibe_coded_apps.db: tables platforms and applications), the ingestion    *)
(* runs that write to it, and the platform merge utility.                   *)
(*                                                                          *)
(* A row is a record; a table is a set of rows.  SQL NULL is the value NULL *)
(* and compares equal to nothing, itself included (SqlEq).                  *)
(***************************************************************************)
EXTENDS Integers, Sequences, FiniteSets, TLC

VARIABLES
    platforms,      \* committed rows of table platforms: [id, name]
    applications,   \* committed rows of table applications
    github_repositories,  \* committed rows of table github_repositories
    nextPid,        \* next rowid of table platforms
    nextAid,        \* next rowid of table applications
    uniqueIndex,    \* the store enforces UNIQUE(platform_id, external_id)
    mode,           \* "seq": one invocation at a time; "conc": independent processes
    gh,             \* per process: position inside process_github_search_results
    cl,             \* position and open transaction of cleanup_platform_duplicates
    di_platforms,   \* DataIntegrator store (vibe_apps.db): rows of table platforms
    di_apps,        \* DataIntegrator store: rows of table apps
    di_seq,         \* sqlite_sequence of the two AUTOINCREMENT tables
    di_call,        \* last insert_platform call: name, returned id; first id per name
    di_run,         \* last source run: its file and the apps row counts
    ft,             \* the running paginated fetch: loop variables and request log
    cyc,            \* outcome of the last run_update_cycle
    ai_tools,       \* committed rows of table ai_tools: [id, name]
    application_ai_tools,  \* committed rows of table application_ai_tools
    enr,            \* the last run_enrichment_batch: what enrich_application returned
    rl              \* GitHubScraper: the clock and the fields _rate_limit keeps

diVars == <<di_platforms, di_apps, di_seq, di_call, di_run>>

storeVars == <<platforms, applications, github_repositories, nextPid, nextAid,
               uniqueIndex, mode, gh, cl>>

fetchVars == <<ft>>

cycleVars == <<cyc>>

toolVars == <<ai_tools, application_ai_tools>>

enrichVars == <<enr>>

rateVars == <<rl>>

vars == <<platforms, applications, github_repositories, nextPid, nextAid,
          uniqueIndex, mode, gh, cl,
          di_platforms, di_apps, di_seq, di_call, di_run, ft, cyc,
          ai_tools, application_ai_tools, enr, rl>>

----------------------------------------------------------------------------
(* Bounds and input domains *)

MaxApps == 2        \* rows of table applications
MaxFile == 2        \* records in one source file

NULL == "NULL"      \* SQL NULL / Python None / JSON null
ExtIds == {"x1", "x2"}
Urls == {"u1", "u2"}
Procs == {1, 2}

FirstFreePid == 12

\* html_url of the repository named repo_name
GithubUrl(repo_name) == IF repo_name = "x1" THEN "u1" ELSE "u2"

\* records of lovable_community_projects_*.json
LovableProjects == [id : ExtIds \cup {""}, url : Urls]
\* records of bolt_gallery_projects_*.json; rejected: status = 'rejected' or
\* not published (such a record is skipped before its fields are read)
BoltProjects ==
    [id : ExtIds \cup {""}, url : Urls, rejected : {FALSE}]
    \cup {[id |-> "x1", url |-> "u1", rejected |-> TRUE]}
\* items of a GitHub code-search result file: repository.id and
\* repository.html_url; x1 also under the url it has after a rename
GitHubItems ==
    {[repo_id |-> x, url |-> GithubUrl(x)] : x \in ExtIds}
    \cup {[repo_id |-> "x1", url |-> "u2"], [repo_id |-> NULL, url |-> "u1"]}
\* repository_owner of the repository with id repo_id
repository_owner(repo_id) == IF repo_id = "x1" THEN "owner1" ELSE "owner2"
\* full_name 'owner/name' of a repository
repository_full_name(repo_id, name) == <<repository_owner(repo_id), name>>
\* results_by_type.agents of a github_code_search_results_*.json file
AgentsResults == [repository_id : ExtIds, repository_name : {"x", "y"}]
\* likely_lovable_repositories of a discovery file: repo_name
RepoNames == ExtIds \cup {""}

\* an element of a source file that is not a JSON object: reading a field
\* of it raises AttributeError
Malformed == "<malformed>"
MalformedProject == [id |-> Malformed, url |-> NULL, rejected |-> FALSE]
MalformedItem == [repo_id |-> Malformed, url |-> NULL]

\* source files that may hold malformed elements
LovableRecords == LovableProjects \cup {[id |-> Malformed, url |-> NULL]}
BoltRecords == BoltProjects \cup {MalformedProject}
GitHubRecords == GitHubItems \cup {MalformedItem}

----------------------------------------------------------------------------
(* The store *)

SqlEq(a, b) == a # NULL /\ b # NULL /\ a = b

PlatformIds(P) == {p.id : p \in P}

AppsOf(A, pid) == {a \in A : a.platform_id = pid}

Min(S) == CHOOSE x \in S : \A y \in S : x <= y

\* platforms.name carries a UNIQUE constraint compared byte-wise
NameConflict(P, name) == \E p \in P : p.name = name

\* UNIQUE(platform_id, external_id) for a known external identifier
NoUniqueViolation(A, pid, ext, selfId) == FALSE

UniqueViolation(A, pid, ext, selfId) ==
    /\ uniqueIndex
    /\ ext \notin {NULL, ""}
    /\ \E a \in A : a.id # selfId /\ a.platform_id = pid /\ a.external_id = ext

\* VibeCodedAppsDB.get_platform_id: the id, or 0 for None
get_platform_id(P, name) ==
    IF \E p \in P : p.name = name
    THEN (CHOOSE p \in P : p.name = name).id
    ELSE 0

\* INSERT OR IGNORE INTO platforms (name, ...)
InsertOrIgnorePlatform(st, name) ==
    IF NameConflict(st.P, name)
    THEN st
    ELSE [P |-> st.P \cup {[id |-> st.next, name |-> name]}, next |-> st.next + 1]

\* the name of a row that is not a bare repository name (a project title, a
\* repository full_name 'owner/name')
OtherName == "other"

NewApp(id, pid, ext, url) ==
    [id |-> id, platform_id |-> pid, external_id |-> ext, url |-> url,
     name |-> OtherName, last_enriched_at |-> NULL]

----------------------------------------------------------------------------
(* integrate_vibe_coding.py *)

\* VibeCodingIntegrator.init_database
VibeInitDatabase(P, next) ==
    InsertOrIgnorePlatform(
        InsertOrIgnorePlatform([P |-> P, next |-> next], "Lovable"), "Bolt")

\* a row with the same (platform, external identifier) exists
ExtOnlyDuplicate(A, pid, ext, url) ==
    \E a \in A : a.platform_id = pid /\ SqlEq(a.external_id, ext)

\* the duplicate check of process_lovable_projects / process_bolt_projects
VibeDuplicate(A, pid, ext, url) ==
    \E a \in A : a.platform_id = pid
                 /\ (SqlEq(a.external_id, ext) \/ SqlEq(a.url, url))

\* self.stats after a loop that has read no record
NoStats == [processed |-> 0, added |-> 0, duplicates_skipped |-> 0, errors |-> 0]

\* the rest of the loop ran as r; this record added p, a and d to the
\* counters *_processed, *_added and duplicates_skipped
Counted(r, p, a, d) ==
    [r EXCEPT !.stats.processed = @ + p, !.stats.added = @ + a,
              !.stats.duplicates_skipped = @ + d]

\* the except branch of the function: the loop is left, errors += 1
Raised(A, next) ==
    [apps |-> A, next |-> next, err |-> TRUE,
     stats |-> [NoStats EXCEPT !.processed = 1, !.errors = 1]]

RECURSIVE process_lovable_projects(_, _, _, _)
process_lovable_projects(A, next, pid, projects) ==
    IF projects = <<>>
    THEN [apps |-> A, next |-> next, err |-> FALSE, stats |-> NoStats]
    ELSE LET pr == Head(projects) IN
         IF pr.id = Malformed
         THEN Raised(A, next)
         ELSE IF VibeDuplicate(A, pid, pr.id, pr.url)
         THEN Counted(process_lovable_projects(A, next, pid, Tail(projects)),
                      1, 0, 1)
         ELSE IF UniqueViolation(A, pid, pr.id, 0)
         THEN Raised(A, next)
         ELSE Counted(process_lovable_projects(
                          A \cup {NewApp(next, pid, pr.id, pr.url)}, next + 1, pid,
                          Tail(projects)),
                      1, 1, 0)

RECURSIVE process_bolt_projects(_, _, _, _)
process_bolt_projects(A, next, pid, projects) ==
    IF projects = <<>>
    THEN [apps |-> A, next |-> next, err |-> FALSE, stats |-> NoStats]
    ELSE LET pr == Head(projects) IN
         IF pr.id = Malformed
         THEN Raised(A, next)
         ELSE IF pr.rejected
         THEN Counted(process_bolt_projects(A, next, pid, Tail(projects)),
                      1, 0, 0)
         ELSE IF VibeDuplicate(A, pid, pr.id, pr.url)
         THEN Counted(process_bolt_projects(A, next, pid, Tail(projects)),
                      1, 0, 1)
         ELSE IF UniqueViolation(A, pid, pr.id, 0)
         THEN Raised(A, next)
         ELSE Counted(process_bolt_projects(
                          A \cup {NewApp(next, pid, pr.id, pr.url)}, next + 1, pid,
                          Tail(projects)),
                      1, 1, 0)

----------------------------------------------------------------------------
(* Scheduling: in mode "seq" an invocation runs alone from start to return; *)
(* in mode "conc" the processes are independent and only the SQLite write   *)
(* lock orders them.                                                        *)

GhIdle(p) == gh[p].pc = "idle"
ClIdle == cl.pc = "idle"

\* the cleanup transaction is open: no other connection can commit a write
ClHoldsLock == cl.pc \in {"update", "delete", "commit"}

MayRunAlone == mode = "seq" => (ClIdle /\ \A p \in Procs : GhIdle(p))

MayStepGh(p) == mode = "seq" => (p = 1 /\ ClIdle /\ \A q \in Procs \ {p} : GhIdle(q))

MayStepCl == mode = "seq" => \A p \in Procs : GhIdle(p)

RECURSIVE SumLen(_)
SumLen(S) ==
    IF S = {} THEN 0
    ELSE LET p == CHOOSE x \in S : TRUE IN Len(gh[p].items) + SumLen(S \ {p})

\* rows that running processes may still insert
Pending == SumLen(Procs)

Room(n) == Cardinality(applications) + Pending + n <= MaxApps

----------------------------------------------------------------------------
(* integrate_vibe_coding.py: VibeCodingIntegrator.integrate_vibe_coding_data *)

lovable_platform(P) == (CHOOSE p \in P : p.name = "Lovable").id
bolt_platform(P) == (CHOOSE p \in P : p.name = "Bolt").id

\* haveLov, haveBolt: a file of that source was found by the glob
integrate_vibe_coding_data(haveLov, lovF, haveBolt, boltF) ==
    /\ MayRunAlone
    /\ ~ClHoldsLock
    /\ haveLov \/ haveBolt
    /\ ~haveLov => lovF = <<>>
    /\ ~haveBolt => boltF = <<>>
    /\ Room(Len(lovF) + Len(boltF))
    /\ LET db == VibeInitDatabase(platforms, nextPid)
           r0 == [apps |-> applications, next |-> nextAid, err |-> FALSE]
           r1 == IF ~haveLov THEN r0
                 ELSE process_lovable_projects(r0.apps, r0.next,
                                               lovable_platform(db.P), lovF)
           r2 == IF ~haveBolt THEN r1
                 ELSE process_bolt_projects(r1.apps, r1.next,
                                            bolt_platform(db.P), boltF)
       IN /\ platforms' = db.P
          /\ nextPid' = db.next
          /\ applications' = r2.apps
          /\ nextAid' = r2.next
    /\ UNCHANGED <<github_repositories, uniqueIndex, mode, gh, cl, diVars, fetchVars, cycleVars, toolVars, enrichVars, rateVars>>

----------------------------------------------------------------------------
(* integrate_github_agents.py: GitHubAgentsIntegrator.init_database *)

AgentsInitDatabase ==
    /\ MayRunAlone
    /\ ~ClHoldsLock
    /\ LET db == InsertOrIgnorePlatform([P |-> platforms, next |-> nextPid], "GitHub")
       IN /\ platforms' = db.P
          /\ nextPid' = db.next
    /\ UNCHANGED <<applications, nextAid, github_repositories, uniqueIndex, mode, gh, cl, diVars, fetchVars, cycleVars, toolVars, enrichVars, rateVars>>

\* one repository of the results file: skipped when a repository row has its
\* repo_id or its full_name, else attached to the GitHub application whose
\* name is the repository's short name, which is created when there is none
process_repository(st, platform_id, repo_data) ==
    LET full_name == repository_full_name(repo_data.repository_id,
                                          repo_data.repository_name)
        existing_repo == {g \in st.R : \/ g.repo_id = repo_data.repository_id
                                       \/ g.full_name = full_name}
        existing_app == {a \in st.A : /\ a.name = repo_data.repository_name
                                      /\ a.platform_id = platform_id}
        NewRepo(application_id) ==
            [application_id |-> application_id,
             repo_id |-> repo_data.repository_id, full_name |-> full_name]
    IN IF existing_repo # {} THEN st
       ELSE IF existing_app # {}
       THEN [st EXCEPT !.R = @ \cup {NewRepo(Min({a.id : a \in existing_app}))}]
       ELSE [A |-> st.A \cup {[NewApp(st.next, platform_id, NULL,
                                      GithubUrl(repo_data.repository_id))
                                EXCEPT !.name = repo_data.repository_name]},
             next |-> st.next + 1,
             R |-> st.R \cup {NewRepo(st.next)}]

RECURSIVE process_repositories(_, _, _)
\* the loop of integrate_results over github_results
process_repositories(st, platform_id, github_results) ==
    IF github_results = <<>> THEN st
    ELSE process_repositories(process_repository(st, platform_id, Head(github_results)),
                              platform_id, Tail(github_results))

integrate_results(github_results) ==
    /\ MayRunAlone
    /\ ~ClHoldsLock
    /\ github_results # <<>>
    /\ Room(Len(github_results))
    /\ LET db == InsertOrIgnorePlatform([P |-> platforms, next |-> nextPid], "GitHub")
           st == process_repositories(
                     [A |-> applications, next |-> nextAid, R |-> github_repositories],
                     get_platform_id(db.P, "GitHub"), github_results)
       IN /\ platforms' = db.P
          /\ nextPid' = db.next
          /\ applications' = st.A
          /\ nextAid' = st.next
          /\ github_repositories' = st.R
    /\ UNCHANGED <<uniqueIndex, mode, gh, cl, diVars, fetchVars, cycleVars, toolVars, enrichVars, rateVars>>

----------------------------------------------------------------------------
(* integrate_lovable_github.py: integrate_lovable_github_discoveries *)

\* the loop over likely_repos; raised: the UPDATE hit the unique index and
\* the exception left the function before conn.commit()
RECURSIVE integrate_repos(_, _, _, _)
integrate_repos(A, next, pid, repos) ==
    IF repos = <<>> THEN [apps |-> A, next |-> next, raised |-> FALSE]
    ELSE LET repo_name == Head(repos)
             github_url == GithubUrl(repo_name)
             found == {a \in A : SqlEq(a.url, github_url)}
         IN
         IF repo_name = ""
         THEN integrate_repos(A, next, pid, Tail(repos))
         ELSE IF found # {}
         THEN LET existing == CHOOSE a \in found : a.id = Min({b.id : b \in found})
              IN IF UniqueViolation(A, pid, existing.external_id, existing.id)
                 THEN [apps |-> A, next |-> next, raised |-> TRUE]
                 ELSE integrate_repos(
                          (A \ {existing}) \cup {[existing EXCEPT !.platform_id = pid]},
                          next, pid, Tail(repos))
         ELSE IF UniqueViolation(A, pid, repo_name, 0)
         THEN integrate_repos(A, next, pid, Tail(repos))
         ELSE integrate_repos(A \cup {NewApp(next, pid, repo_name, github_url)},
                              next + 1, pid, Tail(repos))

integrate_lovable_github_discoveries(repos) ==
    /\ MayRunAlone
    /\ ~ClHoldsLock
    /\ Room(Len(repos))
    /\ LET rows == {p \in platforms : p.name \in {"lovable", "Lovable", "lovable.dev"}}
       IN IF rows = {}
          THEN LET r == integrate_repos(applications, nextAid, nextPid, repos)
               IN IF r.raised
                  THEN UNCHANGED <<platforms, nextPid, applications, nextAid>>
                  ELSE /\ platforms' = platforms \cup {[id |-> nextPid, name |-> "lovable"]}
                       /\ nextPid' = nextPid + 1
                       /\ applications' = r.apps
                       /\ nextAid' = r.next
          ELSE \E platform_row \in rows :
               LET r == integrate_repos(applications, nextAid, platform_row.id, repos)
               IN IF r.raised
                  THEN UNCHANGED <<platforms, nextPid, applications, nextAid>>
                  ELSE /\ applications' = r.apps
                       /\ nextAid' = r.next
                       /\ UNCHANGED <<platforms, nextPid>>
    /\ UNCHANGED <<github_repositories, uniqueIndex, mode, gh, cl, diVars, fetchVars, cycleVars, toolVars, enrichVars, rateVars>>

----------------------------------------------------------------------------
(* process_data.py: GitHubDataProcessor.process_github_search_results, one  *)
(* process per element of Procs.  _insert_or_update_application is a SELECT *)
(* followed by an INSERT or UPDATE and a commit: two steps.                 *)

NoDecision == [kind |-> "none", id |-> 0]

GhRest == [pc |-> "idle", platform_id |-> 0, items |-> <<>>,
           dec |-> NoDecision, out |-> "none", file_type |-> "none",
           link |-> "none"]

\* the SELECT of _insert_or_update_application
LookupByUrl(A, pid, item) ==
    {a \in A : a.platform_id = pid /\ SqlEq(a.url, item.url)}

LookupApplication(A, pid, item) ==
    {a \in A : a.platform_id = pid /\ SqlEq(a.external_id, item.repo_id)}

\* platform_id = self.db.get_platform_id(platform_name), "github.com" by default
GhStart(p, file, file_type) ==
    /\ MayStepGh(p)
    /\ GhIdle(p)
    /\ Room(Len(file))
    /\ get_platform_id(platforms, "github.com") # 0
    /\ gh' = [gh EXCEPT ![p] = [pc |-> "select",
                                platform_id |-> get_platform_id(platforms, "github.com"),
                                items |-> file, dec |-> NoDecision, out |-> "none",
                                file_type |-> file_type, link |-> "none"]]
    /\ UNCHANGED <<platforms, applications, nextPid, nextAid, github_repositories, uniqueIndex, mode, cl, diVars, fetchVars, cycleVars, toolVars, enrichVars, rateVars>>

GhSelect(p) ==
    /\ MayStepGh(p)
    /\ gh[p].pc = "select"
    /\ gh[p].items # <<>>
    /\ LET item == Head(gh[p].items)
           result == LookupApplication(applications, gh[p].platform_id, item)
       IN IF item.repo_id \in {NULL, Malformed}
          THEN gh' = [gh EXCEPT ![p].items = Tail(@)]
          ELSE IF result # {}
          THEN gh' = [gh EXCEPT ![p].pc = "write",
                                ![p].dec = [kind |-> "update",
                                            id |-> Min({a.id : a \in result})]]
          ELSE gh' = [gh EXCEPT ![p].pc = "write",
                                ![p].dec = [kind |-> "insert", id |-> 0]]
    /\ UNCHANGED <<platforms, applications, nextPid, nextAid, github_repositories, uniqueIndex, mode, cl, diVars, fetchVars, cycleVars, toolVars, enrichVars, rateVars>>

\* the repository row of an item, keyed by repo_id: an existing row keeps its
\* application_id (the UPDATE sets counters only), a new row takes app_id
_insert_or_update_github_repo(R, app_id, item) ==
    IF \E g \in R : g.repo_id = item.repo_id THEN R
    ELSE R \cup {[application_id |-> app_id, repo_id |-> item.repo_id,
                  full_name |-> repository_full_name(item.repo_id, "x")]}

\* GitHubDataProcessor._get_ai_tool_from_file_type
_get_ai_tool_from_file_type(file_type) ==
    CASE file_type = "agents_md" -> "AI Agents"
      [] file_type = "claude_md" -> "Claude"
      [] file_type = "gemini_md" -> "Gemini"
      [] OTHER -> NULL

\* VibeCodedAppsDB.get_or_create_ai_tool: the id of the row named name,
\* which is inserted when the SELECT finds none (no row is ever deleted, so
\* the next rowid is the row count plus one)
get_or_create_ai_tool(T, name) ==
    IF \E t \in T : t.name = name
    THEN [T |-> T, id |-> Min({t.id : t \in {u \in T : u.name = name}})]
    ELSE [T |-> T \cup {[id |-> Cardinality(T) + 1, name |-> name]},
          id |-> Cardinality(T) + 1]

\* an INSERT that ignores no conflict
NoLinkConflict(L, app_id, ai_tool_id) == FALSE

\* the association is unique per (application, tool): the conflict that
\* INSERT OR IGNORE ignores
LinkConflict(L, app_id, ai_tool_id) ==
    \E l \in L : l.application_id = app_id /\ l.ai_tool_id = ai_tool_id

\* _link_app_to_ai_tool: INSERT OR IGNORE INTO application_ai_tools;
\* confidence in hundredths
_link_app_to_ai_tool(L, app_id, ai_tool_id, confidence) ==
    IF LinkConflict(L, app_id, ai_tool_id) THEN L
    ELSE L \cup {[id |-> Cardinality(L) + 1, application_id |-> app_id,
                  ai_tool_id |-> ai_tool_id, confidence_score |-> confidence]}

\* get_or_create_ai_tool followed by _link_app_to_ai_tool, for a tool name
\* that is not None; link: what the INSERT OR IGNORE did
link_ai_tool(T, L, app_id, ai_tool_name, confidence) ==
    IF ai_tool_name = NULL THEN [T |-> T, L |-> L, link |-> "none"]
    ELSE LET tool == get_or_create_ai_tool(T, ai_tool_name)
             linked == _link_app_to_ai_tool(L, app_id, tool.id, confidence)
         IN [T |-> tool.T, L |-> linked,
             link |-> IF linked = L THEN "ignored" ELSE "inserted"]

GhWrite(p) ==
    /\ MayStepGh(p)
    /\ gh[p].pc = "write"
    /\ ~ClHoldsLock
    /\ LET item == Head(gh[p].items)
           pid == gh[p].platform_id
           app_id == IF gh[p].dec.kind = "update" THEN gh[p].dec.id ELSE nextAid
           tools == link_ai_tool(ai_tools, application_ai_tools, app_id,
                                 _get_ai_tool_from_file_type(gh[p].file_type), 80)
       IN IF gh[p].dec.kind = "update"
          THEN /\ applications' =
                    {IF a.id = gh[p].dec.id THEN [a EXCEPT !.url = item.url] ELSE a
                     : a \in applications}
               /\ nextAid' = nextAid
               /\ github_repositories' =
                    _insert_or_update_github_repo(github_repositories,
                                                  gh[p].dec.id, item)
               /\ ai_tools' = tools.T
               /\ application_ai_tools' = tools.L
               /\ gh' = [gh EXCEPT ![p].pc = "select", ![p].items = Tail(@),
                                   ![p].dec = NoDecision, ![p].out = "updated",
                                   ![p].link = tools.link]
          ELSE IF UniqueViolation(applications, pid, item.repo_id, 0)
          THEN /\ UNCHANGED <<applications, nextAid, github_repositories, toolVars>>
               /\ gh' = [gh EXCEPT ![p].pc = "select", ![p].items = Tail(@),
                                   ![p].dec = NoDecision, ![p].out = "IntegrityError",
                                   ![p].link = "none"]
          ELSE /\ applications' = applications
                                  \cup {NewApp(nextAid, pid, item.repo_id, item.url)}
               /\ nextAid' = nextAid + 1
               /\ github_repositories' =
                    _insert_or_update_github_repo(github_repositories, nextAid, item)
               /\ ai_tools' = tools.T
               /\ application_ai_tools' = tools.L
               /\ gh' = [gh EXCEPT ![p].pc = "select", ![p].items = Tail(@),
                                   ![p].dec = NoDecision, ![p].out = "inserted",
                                   ![p].link = tools.link]
    /\ UNCHANGED <<platforms, nextPid, uniqueIndex, mode, cl, diVars, fetchVars, cycleVars, enrichVars, rateVars>>

\* the write waited for the lock longer than the busy timeout: the item's
\* OperationalError is caught by the loop and the item is skipped
GhWriteLocked(p) ==
    /\ MayStepGh(p)
    /\ gh[p].pc = "write"
    /\ ClHoldsLock
    /\ gh' = [gh EXCEPT ![p].pc = "select", ![p].items = Tail(@),
                        ![p].dec = NoDecision, ![p].out = "locked",
                        ![p].link = "none"]
    /\ UNCHANGED <<platforms, applications, nextPid, nextAid, github_repositories, uniqueIndex, mode, cl, diVars, fetchVars, cycleVars, toolVars, enrichVars, rateVars>>

GhReturn(p) ==
    /\ MayStepGh(p)
    /\ gh[p].pc = "select"
    /\ gh[p].items = <<>>
    /\ gh' = [gh EXCEPT ![p] = GhRest]
    /\ UNCHANGED <<platforms, applications, nextPid, nextAid, github_repositories, uniqueIndex, mode, cl, diVars, fetchVars, cycleVars, toolVars, enrichVars, rateVars>>

----------------------------------------------------------------------------
(* cleanup_platform_duplicates.py: cleanup_platform_duplicates.  One BEGIN  *)
(* TRANSACTION before the loop over duplicates_to_merge, one COMMIT after   *)
(* it; any exception runs ROLLBACK and is raised again.                     *)

duplicates_to_merge ==
    << [keep_id |-> 12, keep_name |-> "GitHub", merge_id |-> 6, merge_name |-> "github.com"],
       [keep_id |-> 16, keep_name |-> "Bolt", merge_id |-> 3, merge_name |-> "bolt.new"],
       [keep_id |-> 15, keep_name |-> "Lovable", merge_id |-> 2, merge_name |-> "lovable.dev"] >>

NoStore == [P |-> {}, A |-> {}]

ClRest == [pc |-> "idle", at |-> "idle", i |-> 0, tx |-> NoStore, pre |-> NoStore,
           total_moved |-> 0]

Committed == [P |-> platforms, A |-> applications]

\* what the store holds after the except branch: cursor.execute("ROLLBACK")
KeepPartialWork(pre, tx) == tx

RollbackStore(pre, tx) == pre

\* UPDATE applications SET platform_id = keep_id WHERE platform_id = merge_id
MoveApplications(A, keep_id, merge_id) ==
    {IF a.platform_id = merge_id THEN [a EXCEPT !.platform_id = keep_id] ELSE a
     : a \in A}

\* a DELETE whose WHERE clause also matches the rows created later
DeletePlatformsFrom(P, merge_id) == {p \in P : p.id < merge_id}

\* DELETE FROM platforms WHERE id = merge_id
DeletePlatform(P, merge_id) == {p \in P : p.id # merge_id}

ClBegin ==
    /\ MayStepCl
    /\ ClIdle
    /\ cl' = [pc |-> "update", at |-> "idle", i |-> 1, tx |-> Committed, pre |-> Committed,
              total_moved |-> 0]
    /\ UNCHANGED <<platforms, applications, nextPid, nextAid, github_repositories, uniqueIndex, mode, gh, diVars, fetchVars, cycleVars, toolVars, enrichVars, rateVars>>

ClAbort ==
    LET st == RollbackStore(cl.pre, cl.tx)
    IN /\ platforms' = st.P
       /\ applications' = st.A
       /\ cl' = [cl EXCEPT !.pc = "failed", !.at = cl.pc, !.tx = NoStore]

\* SELECT COUNT(*) and, when it is positive, the UPDATE of pair i
ClUpdate ==
    /\ MayStepCl
    /\ cl.pc = "update"
    /\ LET d == duplicates_to_merge[cl.i]
           apps_to_move == AppsOf(cl.tx.A, d.merge_id)
       IN IF \E a \in apps_to_move :
                 UniqueViolation(cl.tx.A, d.keep_id, a.external_id, a.id)
          THEN ClAbort
          ELSE /\ cl' = [cl EXCEPT !.pc = "delete",
                                   !.tx.A = IF apps_to_move # {}
                                            THEN MoveApplications(@, d.keep_id, d.merge_id)
                                            ELSE @,
                                   !.total_moved = @ + Cardinality(apps_to_move)]
               /\ UNCHANGED <<platforms, applications>>
    /\ UNCHANGED <<nextPid, nextAid, github_repositories, uniqueIndex, mode, gh, diVars, fetchVars, cycleVars, toolVars, enrichVars, rateVars>>

ClDelete ==
    /\ MayStepCl
    /\ cl.pc = "delete"
    /\ LET d == duplicates_to_merge[cl.i]
       IN cl' = [cl EXCEPT !.tx.P = DeletePlatform(@, d.merge_id),
                           !.i = @ + 1,
                           !.pc = IF cl.i = Len(duplicates_to_merge)
                                  THEN "commit" ELSE "update"]
    /\ UNCHANGED <<platforms, applications, nextPid, nextAid, github_repositories, uniqueIndex, mode, gh, diVars, fetchVars, cycleVars, toolVars, enrichVars, rateVars>>

ClCommit ==
    /\ MayStepCl
    /\ cl.pc = "commit"
    /\ platforms' = cl.tx.P
    /\ applications' = cl.tx.A
    /\ cl' = [cl EXCEPT !.pc = "committed", !.tx = NoStore]
    /\ UNCHANGED <<nextPid, nextAid, github_repositories, uniqueIndex, mode, gh, diVars, fetchVars, cycleVars, toolVars, enrichVars, rateVars>>

\* a statement of the open transaction raises (I/O error, lock, interrupt)
ClError ==
    /\ MayStepCl
    /\ ClHoldsLock
    /\ ClAbort
    /\ UNCHANGED <<nextPid, nextAid, github_repositories, uniqueIndex, mode, gh, diVars, fetchVars, cycleVars, toolVars, enrichVars, rateVars>>

ClReturn ==
    /\ MayStepCl
    /\ cl.pc \in {"committed", "failed"}
    /\ cl' = ClRest
    /\ UNCHANGED <<platforms, applications, nextPid, nextAid, github_repositories, uniqueIndex, mode, gh, diVars, fetchVars, cycleVars, toolVars, enrichVars, rateVars>>

----------------------------------------------------------------------------
(* data_integration.py: DataIntegrator and its own store.  apps.url and     *)
(* platforms.name are UNIQUE; both tables are AUTOINCREMENT.                *)

MaxDiRows == 3      \* rows of table apps
MaxDiCalls == 3     \* insert_platform calls

DiNames == {"Bolt", "Lovable", "Jules"}
\* url of a record: JSON null, the default '', or a url
DiUrls == {NULL, "", "u1"}

\* the rows process_original_data creates platforms for; one stands for the
\* six files it reads
OriginalName == "Lovable Original"

NoCall == [name |-> "", id |-> 0,
           first |-> [n \in DiNames \cup {OriginalName} |-> 0], removed |-> FALSE]
NoRun == [name |-> "", file |-> <<>>, before |-> 0, after |-> 0, repeat |-> FALSE,
          calls |-> <<>>]

InitDI ==
    /\ di_platforms = {}
    /\ di_apps = {}
    /\ di_seq = [platforms |-> 0, apps |-> 0]
    /\ di_call = NoCall
    /\ di_run = NoRun

\* INSERT OR IGNORE keeps the row of the same name
InsertIgnorePlatformRows(P, seq, name) ==
    IF \E p \in P : p.name = name
    THEN [P |-> P, seq |-> seq, id |-> (CHOOSE p \in P : p.name = name).id]
    ELSE [P |-> P \cup {[id |-> seq + 1, name |-> name]}, seq |-> seq + 1, id |-> seq + 1]

\* DataIntegrator.insert_platform: INSERT OR REPLACE INTO platforms, returns
\* cursor.lastrowid.  REPLACE deletes the row that holds the name.
InsertReplacePlatformRows(P, seq, name) ==
    [P |-> {p \in P : p.name # name} \cup {[id |-> seq + 1, name |-> name]},
     seq |-> seq + 1, id |-> seq + 1]

\* the pre-check of DataIntegrator.insert_app: only for a truthy url
DiUrlSeen(A, url) == url \notin {NULL, ""} /\ \E a \in A : SqlEq(a.url, url)

\* UNIQUE on apps.url: NULLs are distinct from each other
DiUrlConflict(A, url) == \E a \in A : SqlEq(a.url, url)

\* cursor.lastrowid after an INSERT OR IGNORE that inserted nothing: the
\* rowid of the last successful INSERT on the connection
StaleRowid(last) == last

\* DataIntegrator.insert_app on the rows A; seq is sqlite_sequence of apps,
\* last the connection's last insert rowid.  id: the value returned (0 for
\* None); created: a row was inserted; counted: the statistic incremented
insert_app(A, seq, last, url, source) ==
    IF DiUrlSeen(A, url)
    THEN [A |-> A, seq |-> seq, last |-> last, id |-> 0, created |-> FALSE,
          counted |-> "duplicates_skipped"]
    ELSE IF DiUrlConflict(A, url)
    THEN LET app_id == StaleRowid(last)
         IN [A |-> A, seq |-> seq + 1, last |-> last, id |-> app_id,
             created |-> FALSE,
             counted |-> IF app_id # 0 THEN "total_processed"
                         ELSE "duplicates_skipped"]
    ELSE [A |-> A \cup {[id |-> seq + 1, url |-> url, source_platform |-> source]},
          seq |-> seq + 1, last |-> seq + 1, id |-> seq + 1, created |-> TRUE,
          counted |-> "total_processed"]

RECURSIVE insert_apps(_, _, _, _, _)
\* the loop of a process_* method; calls: what each insert_app call did
insert_apps(A, seq, last, urls, source) ==
    IF urls = <<>> THEN [A |-> A, seq |-> seq, last |-> last, calls |-> <<>>]
    ELSE LET r == insert_app(A, seq, last, Head(urls), source)
             rest == insert_apps(r.A, r.seq, r.last, Tail(urls), source)
         IN [rest EXCEPT !.calls =
                <<[url |-> Head(urls), id |-> r.id, created |-> r.created,
                   counted |-> r.counted, row |-> r.seq]>> \o @]

\* process_bolt_projects / process_lovable_projects / process_jules_prs:
\* insert_platform for the source, then insert_app for every record
DiProcessSource(name, urls) ==
    /\ di_seq.platforms < MaxDiCalls
    /\ Cardinality(di_apps) + Len(urls) <= MaxDiRows
    /\ LET pr == InsertReplacePlatformRows(di_platforms, di_seq.platforms, name)
           first == IF di_call.first[name] = 0
                    THEN [di_call.first EXCEPT ![name] = pr.id]
                    ELSE di_call.first
           ar == insert_apps(di_apps, di_seq.apps, pr.id, urls, name)
       IN /\ di_platforms' = pr.P
          /\ di_apps' = ar.A
          /\ di_seq' = [platforms |-> pr.seq, apps |-> ar.seq]
          /\ di_call' = [name |-> name, id |-> pr.id, first |-> first,
                         removed |-> \E p \in di_platforms : p \notin pr.P]
          /\ di_run' = [name |-> name, file |-> urls,
                        before |-> Cardinality(di_apps),
                        after |-> Cardinality(ar.A),
                        repeat |-> di_run.name = name /\ di_run.file = urls,
                        calls |-> ar.calls]
    /\ UNCHANGED <<storeVars, fetchVars, cycleVars, toolVars, enrichVars, rateVars>>

\* items of a file of process_original_data: each key is absent (NULL) or
\* carries a value
OriginalItems == [name : {NULL, "n"}, title : {NULL, "t"},
                  url : {NULL, "u1"}, link : {NULL, "u1"}]

\* the app_data process_original_data builds from an item (regular format):
\* item.get('name', item.get('title', '')), item.get('url', item.get('link', ''))
NormalizeOriginal(item) ==
    [name |-> IF item.name # NULL THEN item.name
              ELSE IF item.title # NULL THEN item.title ELSE "",
     url |-> IF item.url # NULL THEN item.url
             ELSE IF item.link # NULL THEN item.link ELSE ""]

\* process_original_data for one of its files
DiProcessOriginal(items) ==
    /\ \A i \in 1..Len(items) : items[i] \in OriginalItems
    /\ DiProcessSource(OriginalName,
                       [i \in 1..Len(items) |-> NormalizeOriginal(items[i]).url])

NextDI ==
    \/ \E name \in DiNames : \E n \in 0..MaxFile : \E urls \in [1..n -> DiUrls] :
           DiProcessSource(name, urls)
    \/ \E n \in 0..MaxFile : \E items \in [1..n -> OriginalItems] :
           DiProcessOriginal(items)

----------------------------------------------------------------------------
(* The paginated fetch loops: BoltSupabaseScraper.fetch_all_projects,       *)
(* LovableScraper.fetch_all_projects, JulesPRScraper.fetch_all_prs_api,     *)
(* GitHubCodeSearchProcessor.search_code_files and                          *)
(* GitHubScraper.search_repositories.  The source holds the records 1..n    *)
(* and serves page k as the k-th slice of per_page records.  Page sizes and *)
(* ceilings are scaled: per_page 100 (Bolt: 1000) to 2, the 1000-result     *)
(* ceiling (10 pages) to 4 (2 pages).                                       *)

MaxRecords == 5     \* records held by a source
MaxRequests == 4    \* HTTP requests of one fetch

per_page == 2
search_limit == 4
max_pages == 2
\* max_pages of _scrape_paginated_projects, which starts at page 2
stitch_max_pages == 5
MaxResults == 3     \* max_results given to search_code_files

Sources == {"bolt", "lovable", "jules", "code", "repos"}

\* max_results = 0 stands for a max_results that is None (or 0): the code
\* tests "if max_results", which both fail
FtRest == [src |-> "none", pc |-> "idle", n |-> 0, page |-> 1, all |-> <<>>,
           reqs |-> <<>>, max_results |-> 0]

RECURSIVE Range(_, _)
Range(a, b) == IF a > b THEN <<>> ELSE <<a>> \o Range(a + 1, b)

\* the records the source returns for page k (offset (k-1)*per_page)
PageOf(n, k) ==
    LET first == (k - 1) * per_page + 1
        last == IF k * per_page < n THEN k * per_page ELSE n
    IN Range(first, last)

\* what a request for page k can bring back: a rate-limit answer, another
\* HTTP error, a transport error, or the page; has_more / cursor are the
\* hasMore and nextCursor fields, which only Lovable's API carries
Responses(src, n, k) ==
    {[status |-> st, items |-> <<>>, has_more |-> FALSE, cursor |-> FALSE]
        : st \in {"403", "500", "transport"}}
    \cup {[status |-> "200", items |-> PageOf(n, k), has_more |-> h, cursor |-> c]
            : h \in (IF src = "lovable" THEN BOOLEAN ELSE {FALSE}),
              c \in (IF src = "lovable" THEN BOOLEAN ELSE {FALSE})}

\* a failed request handled as a successful empty page that is followed
SkipFailedPage(resp) == [items |-> <<1>>, has_more |-> TRUE, next_cursor |-> TRUE]

\* what fetch_gallery_projects, fetch_community_projects and
\* fetch_jules_prs_api return for a response that is not a 200: the
\* RequestException of raise_for_status (or the 403 branch) gives no items
FailedPage(resp) == [items |-> <<>>, has_more |-> FALSE, next_cursor |-> FALSE]

\* BoltSupabaseScraper.fetch_gallery_projects
fetch_gallery_projects(resp) ==
    IF resp.status # "200" THEN FailedPage(resp).items ELSE resp.items

\* LovableScraper.fetch_community_projects
fetch_community_projects(resp) ==
    IF resp.status # "200" THEN FailedPage(resp)
    ELSE [items |-> resp.items, has_more |-> resp.has_more,
          next_cursor |-> resp.cursor]

\* JulesPRScraper.fetch_jules_prs_api
fetch_jules_prs_api(resp) ==
    IF resp.status # "200" THEN FailedPage(resp)
    ELSE [items |-> resp.items, has_more |-> Len(resp.items) = per_page,
          next_cursor |-> FALSE]

\* a loop that puts a new page in front of the pages it holds
ContinuePrepending(f, items) == [f EXCEPT !.all = items \o @, !.page = @ + 1]

\* all_projects.extend(batch) and the step to the next offset / cursor / page
Continue(f, items) == [f EXCEPT !.all = @ \o items, !.page = @ + 1]
Break(f, items) == [f EXCEPT !.all = @ \o items, !.pc = "done"]

\* one pass of the while loop of BoltSupabaseScraper.fetch_all_projects
BoltPass(f, resp) ==
    LET batch == fetch_gallery_projects(resp)
    IN IF batch = <<>> THEN Break(f, <<>>)
       ELSE IF Len(batch) < per_page THEN Break(f, batch)
       ELSE Continue(f, batch)

\* one pass of the while loop of LovableScraper.fetch_all_projects
LovablePass(f, resp) ==
    LET response == fetch_community_projects(resp)
    IN IF response.items = <<>> THEN Break(f, <<>>)
       ELSE IF ~response.has_more THEN Break(f, response.items)
       ELSE IF ~response.next_cursor THEN Break(f, response.items)
       ELSE Continue(f, response.items)

\* one pass of the while loop of JulesPRScraper.fetch_all_prs_api
JulesPass(f, resp) ==
    LET response == fetch_jules_prs_api(resp)
    IN IF response.items = <<>> THEN Break(f, <<>>)
       ELSE IF ~response.has_more THEN Break(f, response.items)
       ELSE IF Len(f.all) + Len(response.items) >= search_limit
       THEN [Continue(f, response.items) EXCEPT !.pc = "done"]
       ELSE Continue(f, response.items)

\* one pass of the while loop of GitHubCodeSearchProcessor.search_code_files
\* a 403 sleeps and goes round again with the same page
CodePass(f, resp) ==
    IF resp.status = "403" THEN f
    ELSE IF resp.status # "200" THEN Break(f, <<>>)
    ELSE IF resp.items = <<>> THEN Break(f, <<>>)
    ELSE IF f.max_results # 0 /\ Len(f.all) + Len(resp.items) >= f.max_results
    THEN [f EXCEPT !.all = SubSeq(@ \o resp.items, 1, f.max_results),
                   !.pc = "done"]
    ELSE IF Len(resp.items) < per_page THEN Break(f, resp.items)
    ELSE IF Len(f.all) + Len(resp.items) >= search_limit
    THEN [Continue(f, resp.items) EXCEPT !.pc = "done"]
    ELSE Continue(f, resp.items)

\* one pass of the while loop of GitHubScraper.search_repositories
ReposPass(f, resp) ==
    IF resp.status # "200" THEN Break(f, <<>>)
    ELSE IF resp.items = <<>> THEN Break(f, <<>>)
    ELSE IF Len(resp.items) < per_page THEN Break(f, resp.items)
    ELSE IF f.page + 1 > max_pages
    THEN [Continue(f, resp.items) EXCEPT !.pc = "done"]
    ELSE Continue(f, resp.items)

\* one pass of the while loop of StitchScraper._scrape_paginated_projects;
\* an exception of the request leaves the loop through the outer except
StitchPass(f, resp) ==
    IF resp.status # "200" THEN Break(f, <<>>)
    ELSE IF resp.items = <<>> THEN Break(f, <<>>)
    ELSE IF f.page + 1 > stitch_max_pages
    THEN [Continue(f, resp.items) EXCEPT !.pc = "done"]
    ELSE Continue(f, resp.items)

Pass(f, resp) ==
    CASE f.src = "bolt" -> BoltPass(f, resp)
      [] f.src = "lovable" -> LovablePass(f, resp)
      [] f.src = "jules" -> JulesPass(f, resp)
      [] f.src = "code" -> CodePass(f, resp)
      [] f.src = "repos" -> ReposPass(f, resp)
      [] f.src = "stitch" -> StitchPass(f, resp)

\* a fetch is called on a source holding n records
FetchStart(src, n) ==
    /\ ft.pc = "idle"
    /\ ft' = [FtRest EXCEPT !.src = src, !.pc = "request", !.n = n]
    /\ UNCHANGED <<storeVars, diVars, cycleVars, toolVars, enrichVars, rateVars>>

\* one request and the rest of the loop body
FetchPage(resp) ==
    /\ ft.pc = "request"
    /\ Len(ft.reqs) < MaxRequests
    /\ resp \in Responses(ft.src, ft.n, ft.page)
    /\ ft' = [Pass(ft, resp) EXCEPT
                 !.reqs = Append(@, [page |-> ft.page, status |-> resp.status,
                                     len |-> Len(resp.items),
                                     has_more |-> resp.has_more,
                                     cursor |-> resp.cursor])]
    /\ UNCHANGED <<storeVars, diVars, cycleVars, toolVars, enrichVars, rateVars>>

\* the fetch has returned its list; the caller is done with it
FetchReturn ==
    /\ ft.pc = "done"
    /\ ft' = FtRest
    /\ UNCHANGED <<storeVars, diVars, cycleVars, toolVars, enrichVars, rateVars>>

NextFetch ==
    \/ \E src \in Sources : \E n \in 0..MaxRecords : FetchStart(src, n)
    \/ \E st \in {"200", "403", "500", "transport"} : \E h, c \in BOOLEAN :
           \E resp \in Responses(ft.src, ft.n, ft.page) :
               resp.status = st /\ resp.has_more = h /\ resp.cursor = c /\ FetchPage(resp)
    \/ FetchReturn

\* the loops with a ceiling, against a server that is free to ignore the
\* page size it is asked for
CeilingSources == {"repos", "jules", "code", "stitch"}

\* a page of per_page + 1 records
OverfullPage(k) == Range((k - 1) * per_page + 1, k * per_page + 1)

ServerResponses(src, n, k) ==
    Responses(src, n, k)
    \cup {[status |-> "200", items |-> OverfullPage(k), has_more |-> FALSE,
           cursor |-> FALSE]}

\* a fetch is called; search_code_files may be given max_results, and
\* _scrape_paginated_projects starts at page 2
FetchStartCeiling(src, n, max_results) ==
    /\ ft.pc = "idle"
    /\ max_results # 0 => src = "code"
    /\ ft' = [FtRest EXCEPT !.src = src, !.pc = "request", !.n = n,
                            !.max_results = max_results,
                            !.page = IF src = "stitch" THEN 2 ELSE 1]
    /\ UNCHANGED <<storeVars, diVars, cycleVars, toolVars, enrichVars, rateVars>>

\* one request and the rest of the loop body
ServerPage(resp) ==
    /\ ft.pc = "request"
    /\ Len(ft.reqs) < MaxRequests
    /\ resp \in ServerResponses(ft.src, ft.n, ft.page)
    /\ ft' = [Pass(ft, resp) EXCEPT
                 !.reqs = Append(@, [page |-> ft.page, status |-> resp.status,
                                     len |-> Len(resp.items),
                                     has_more |-> resp.has_more,
                                     cursor |-> resp.cursor])]
    /\ UNCHANGED <<storeVars, diVars, cycleVars, toolVars, enrichVars, rateVars>>

NextCeiling ==
    \/ \E src \in CeilingSources : \E n \in 0..MaxRecords :
           \E max_results \in 0..MaxResults : FetchStartCeiling(src, n, max_results)
    \/ \E resp \in ServerResponses(ft.src, ft.n, ft.page) : ServerPage(resp)
    \/ FetchReturn

----------------------------------------------------------------------------
(* Initial stores.  SeededStore: the platform rows the schema file creates  *)
(* that the scripts name (ids as hard-coded in duplicates_to_merge, every   *)
(* seeded id below FirstFreePid).  DocumentedStore: the store the merge     *)
(* utility was written against.                                             *)

\* GitHubScraper.__init__ at clock 0
RlInit == [now |-> 0, hour_start |-> 0, last_request_time |-> 0, request_count |-> 0]

\* no run_enrichment_batch is running
EnrRest == [pc |-> "idle", returned |-> <<>>]

\* no run_update_cycle has run yet
NoCycle == [state |-> "none", processed |-> {}, present |-> {}, jobs |-> <<>>]

SeededPlatforms ==
    {[id |-> 1, name |-> "v0.dev"], [id |-> 2, name |-> "lovable.dev"],
     [id |-> 3, name |-> "bolt.new"], [id |-> 6, name |-> "github.com"]}

DocumentedPlatforms ==
    SeededPlatforms \cup
    {[id |-> 12, name |-> "GitHub"], [id |-> 15, name |-> "Lovable"],
     [id |-> 16, name |-> "Bolt"]}

InitStore ==
    /\ \/ platforms = SeededPlatforms /\ nextPid = FirstFreePid
       \/ platforms = DocumentedPlatforms /\ nextPid = 17
    /\ applications = {}
    /\ github_repositories = {}
    /\ nextAid = 1
    /\ gh = [p \in Procs |-> GhRest]
    /\ cl = ClRest
    /\ InitDI
    /\ ft = FtRest
    /\ cyc = NoCycle
    /\ ai_tools = {}
    /\ application_ai_tools = {}
    /\ enr = EnrRest
    /\ rl = RlInit

Init == InitStore /\ uniqueIndex = TRUE /\ mode = "seq"

InitConc == InitStore /\ uniqueIndex = TRUE /\ mode = "conc"

InitAppCheck == InitStore /\ uniqueIndex = FALSE /\ mode = "seq"

VibeRun ==
    \E total \in 0..MaxFile :
        /\ Room(total)
        /\ \E n \in 0..total :
           \E lovF \in [1..n -> LovableProjects] :
           \E boltF \in [1..(total - n) -> BoltProjects] :
           \E haveLov, haveBolt \in BOOLEAN :
               integrate_vibe_coding_data(haveLov, lovF, haveBolt, boltF)

GitHubRun ==
    \/ \E p \in Procs : \E n \in 0..MaxFile :
           Room(n) /\ \E file \in [1..n -> GitHubItems] :
               GhStart(p, file, "agents_md")
    \/ \E p \in Procs : GhSelect(p)
    \/ \E p \in Procs : GhWrite(p)
    \/ \E p \in Procs : GhReturn(p)

Integrate ==
    \/ AgentsInitDatabase
    \/ \E n \in 1..MaxFile :
           Room(n) /\ \E github_results \in [1..n -> AgentsResults] :
               integrate_results(github_results)
    \/ \E n \in 0..MaxFile :
           Room(n) /\ \E repos \in [1..n -> RepoNames] :
               integrate_lovable_github_discoveries(repos)

Cleanup ==
    \/ ClBegin
    \/ ClUpdate
    \/ ClDelete
    \/ ClCommit
    \/ ClError
    \/ ClReturn

Next == VibeRun \/ GitHubRun \/ Integrate \/ Cleanup

NextConc == GitHubRun \/ (\E p \in Procs : GhWriteLocked(p)) \/ Cleanup

NextAppCheck == VibeRun \/ GitHubRun

\* the same runs on files that may hold malformed elements
VibeRecordsRun ==
    \E total \in 0..MaxFile :
        /\ Room(total)
        /\ \E n \in 0..total :
           \E lovF \in [1..n -> LovableRecords] :
           \E boltF \in [1..(total - n) -> BoltRecords] :
           \E haveLov, haveBolt \in BOOLEAN :
               integrate_vibe_coding_data(haveLov, lovF, haveBolt, boltF)

GitHubRecordsRun ==
    \/ \E n \in 0..MaxFile :
           Room(n) /\ \E file \in [1..n -> GitHubRecords] :
               GhStart(1, file, "agents_md")
    \/ GhSelect(1)
    \/ GhWrite(1)
    \/ GhReturn(1)

NextRecords == VibeRecordsRun \/ GitHubRecordsRun

Spec == Init /\ [][Next]_vars

SpecConc == InitConc /\ [][NextConc]_vars

SpecAppCheck == InitAppCheck /\ [][NextAppCheck]_vars

SpecDI == Init /\ [][NextDI]_vars

SpecRecords == Init /\ [][NextRecords]_vars

SpecFetch == Init /\ [][NextFetch]_vars

SpecCeiling == Init /\ [][NextCeiling]_vars

----------------------------------------------------------------------------
(* update_data.py: run_update_cycle.  The four scrapers run one after the   *)
(* other on one connection; each starts by creating a scraping job for its  *)
(* platform, outside its try block.                                         *)

\* urls of First-Scrape/v0.json with the id _extract_v0_id finds in them
V0Urls == {[repo_id |-> "x1", url |-> "u1"], [repo_id |-> "x2", url |-> "u2"],
           [repo_id |-> NULL, url |-> "u1"]}

\* the scrapers of run_update_cycle in call order, with the platform name
\* each passes to create_scraping_job
scrapers == << [source |-> "github", platform_name |-> "github.com"],
               [source |-> "v0", platform_name |-> "v0.dev"],
               [source |-> "bolt", platform_name |-> "bolt.new"],
               [source |-> "lovable", platform_name |-> "lovable.dev"] >>

\* file types main passes to process_github_search_results
FileTypes == {"agents_md", "claude_md"}

RECURSIVE process_urls(_, _, _)
\* the loop of process_v0_urls over urls; st: the rows of applications (A),
\* github_repositories (R), ai_tools (T) and application_ai_tools (L), the
\* next application rowid, and the number of urls written so far
process_urls(st, platform_id, urls) ==
    IF urls = <<>> THEN st
    ELSE LET url == Head(urls)
             community_id == url.repo_id
             result == LookupApplication(st.A, platform_id, url)
             app_id == IF result # {} THEN Min({a.id : a \in result}) ELSE st.next
             tools == link_ai_tool(st.T, st.L, app_id, "v0", 100)
         IN IF community_id = NULL
            THEN process_urls(st, platform_id, Tail(urls))
            ELSE IF result # {}
            THEN process_urls(
                     [st EXCEPT !.A = {IF a.id = app_id
                                       THEN [a EXCEPT !.url = url.url] ELSE a
                                       : a \in st.A},
                                !.T = tools.T, !.L = tools.L,
                                !.written = @ + 1],
                     platform_id, Tail(urls))
            ELSE IF UniqueViolation(st.A, platform_id, community_id, 0)
            THEN process_urls(st, platform_id, Tail(urls))
            ELSE process_urls(
                     [A |-> st.A \cup {NewApp(st.next, platform_id, community_id,
                                              url.url)},
                      next |-> st.next + 1, R |-> st.R, T |-> tools.T,
                      L |-> tools.L, written |-> st.written + 1],
                     platform_id, Tail(urls))

RECURSIVE process_items(_, _, _, _)
\* the loop of process_github_search_results run to its end on one
\* connection: for every item that has a repository id the application row,
\* the repository row and the AI-tool link
process_items(st, platform_id, items, file_type) ==
    IF items = <<>> THEN st
    ELSE LET item == Head(items)
             result == LookupApplication(st.A, platform_id, item)
             app_id == IF result # {} THEN Min({a.id : a \in result}) ELSE st.next
             tools == link_ai_tool(st.T, st.L, app_id,
                                   _get_ai_tool_from_file_type(file_type), 80)
         IN IF item.repo_id \in {NULL, Malformed}
            THEN process_items(st, platform_id, Tail(items), file_type)
            ELSE IF result # {}
            THEN process_items(
                     [st EXCEPT !.A = {IF a.id = app_id
                                       THEN [a EXCEPT !.url = item.url] ELSE a
                                       : a \in st.A},
                                !.R = _insert_or_update_github_repo(@, app_id, item),
                                !.T = tools.T, !.L = tools.L,
                                !.written = @ + 1],
                     platform_id, Tail(items), file_type)
            ELSE IF UniqueViolation(st.A, platform_id, item.repo_id, 0)
            THEN process_items(st, platform_id, Tail(items), file_type)
            ELSE process_items(
                     [A |-> st.A \cup {NewApp(st.next, platform_id, item.repo_id,
                                              item.url)},
                      next |-> st.next + 1,
                      R |-> _insert_or_update_github_repo(st.R, st.next, item),
                      T |-> tools.T, L |-> tools.L, written |-> st.written + 1],
                     platform_id, Tail(items), file_type)

\* the application rows process_github_search_results leaves
insert_or_update_applications(A, next, pid, items) ==
    LET st == process_items([A |-> A, next |-> next, R |-> {}, T |-> {}, L |-> {},
                             written |-> 0], pid, items, "agents_md")
    IN [apps |-> st.A, next |-> st.next]

\* PlatformScraper.create_scraping_job returns: the platform row exists
\* (otherwise it raises ValueError)
create_scraping_job(P, i) == get_platform_id(P, scrapers[i].platform_name) # 0

\* PlatformScraper.update_job_status: completed_at is set for 'completed';
\* written: the items the run wrote to the store (not a column)
update_job_status(source, status, items_processed, written) ==
    [source |-> source, status |-> status, items_found |-> items_processed,
     items_processed |-> items_processed,
     completed_at |-> IF status = "completed" THEN "now" ELSE NULL,
     written |-> written]

\* one of update_github_data (one search), update_v0_data, update_bolt_data,
\* update_lovable_data after its job was created and set to 'running'; file:
\* what the scraper found; raises: the body of the try raises before it
\* processes (the raw file cannot be written)
update_data(st, source, platform_id, file, raises) ==
    LET rows == [A |-> st.A, next |-> st.next, R |-> st.R, T |-> st.T, L |-> st.L,
                 written |-> 0]
        done == IF source = "github" THEN process_items(rows, platform_id, file,
                                                        "agents_md")
                ELSE IF source = "v0" THEN process_urls(rows, platform_id, file)
                ELSE rows
    IN IF raises
       THEN [st EXCEPT !.jobs = Append(@, update_job_status(source, "failed", 0, 0))]
       ELSE [st EXCEPT !.A = done.A, !.next = done.next, !.R = done.R,
                       !.T = done.T, !.L = done.L,
                       !.jobs = Append(@, update_job_status(source, "completed",
                                                            Len(file), done.written))]

RECURSIVE run_scrapers(_, _, _, _, _)
\* the calls of run_update_cycle from scraper i on; files[i] is what scraper
\* i found (GitHub: the items of its search; v0: the urls; Bolt and Lovable:
\* nothing); raising: the sources whose try body raises
run_scrapers(P, st, i, files, raising) ==
    IF i > Len(scrapers) THEN [st EXCEPT !.state = "completed"]
    ELSE IF ~create_scraping_job(P, i) THEN [st EXCEPT !.state = "raised"]
    ELSE run_scrapers(P,
                      [update_data(st, scrapers[i].source,
                                   get_platform_id(P, scrapers[i].platform_name),
                                   files[i], scrapers[i].source \in raising)
                         EXCEPT !.processed = @ \cup {scrapers[i].source}],
                      i + 1, files, raising)

run_update_cycle(items, urls, raising) ==
    /\ MayRunAlone
    /\ ~ClHoldsLock
    /\ Room(Len(items) + Len(urls))
    /\ LET st == run_scrapers(platforms,
                              [state |-> "running", A |-> applications,
                               next |-> nextAid, R |-> github_repositories,
                               T |-> ai_tools, L |-> application_ai_tools,
                               processed |-> {}, jobs |-> <<>>],
                              1, <<items, urls, <<>>, <<>>>>, raising)
       IN /\ applications' = st.A
          /\ nextAid' = st.next
          /\ github_repositories' = st.R
          /\ ai_tools' = st.T
          /\ application_ai_tools' = st.L
          /\ cyc' = [state |-> st.state, processed |-> st.processed,
                     present |-> {scrapers[i].source : i \in
                                    {j \in 1..Len(scrapers) :
                                        get_platform_id(platforms,
                                            scrapers[j].platform_name) # 0}},
                     jobs |-> st.jobs]
    /\ UNCHANGED <<platforms, nextPid, uniqueIndex, mode, gh, cl, diVars, fetchVars,
                   enrichVars, rateVars>>

UpdateCycle ==
    \E total \in 0..MaxFile :
        /\ Room(total)
        /\ \E n \in 0..total :
           \E items \in [1..n -> GitHubItems] :
           \E urls \in [1..(total - n) -> V0Urls] :
           \E raising \in SUBSET {scrapers[i].source : i \in 1..Len(scrapers)} :
               run_update_cycle(items, urls, raising)

NextCycle == UpdateCycle \/ Cleanup

SpecCycle == Init /\ [][NextCycle]_vars

----------------------------------------------------------------------------
(* process_data.py: the AI-tool associations written by main: the GitHub    *)
(* result files, each with its file type, and V0DataProcessor.process_v0_urls *)

process_v0_urls(urls) ==
    /\ MayRunAlone
    /\ ~ClHoldsLock
    /\ Room(Len(urls))
    /\ get_platform_id(platforms, "v0.dev") # 0
    /\ LET st == process_urls([A |-> applications, next |-> nextAid,
                               R |-> github_repositories, T |-> ai_tools,
                               L |-> application_ai_tools, written |-> 0],
                              get_platform_id(platforms, "v0.dev"), urls)
       IN /\ applications' = st.A
          /\ nextAid' = st.next
          /\ ai_tools' = st.T
          /\ application_ai_tools' = st.L
    /\ UNCHANGED <<platforms, nextPid, github_repositories, uniqueIndex, mode, gh,
                   cl, diVars, fetchVars, cycleVars, enrichVars, rateVars>>

GitHubToolsRun ==
    \/ \E file_type \in FileTypes : \E n \in 0..MaxFile :
           Room(n) /\ \E file \in [1..n -> GitHubItems] :
               GhStart(1, file, file_type)
    \/ GhSelect(1)
    \/ GhWrite(1)
    \/ GhReturn(1)

V0Run ==
    \E n \in 0..MaxFile :
        Room(n) /\ \E urls \in [1..n -> V0Urls] : process_v0_urls(urls)

NextTools == GitHubToolsRun \/ V0Run

SpecTools == Init /\ [][NextTools]_vars

----------------------------------------------------------------------------
(* database_enrichment.py: DatabaseEnricher.run_enrichment_batch.  The      *)
(* columns the enrichment writes are stood for by last_enriched_at.         *)

\* what the GitHub API answers for a repository
GithubResponses == {"200", "404", "transport"}

\* extract_github_info finds an owner and a repository in the url: u1 has
\* both path segments, u2 names one segment only
extract_github_info(url) == url = "u1"

\* the rows get_github_apps_to_enrich selects; week_passed: the rows
\* enriched before are older than seven days
get_github_apps_to_enrich(P, A, week_passed) ==
    {a \in A : /\ \E p \in P : p.id = a.platform_id /\ p.name \in {"GitHub", "Lovable"}
               /\ a.url # NULL
               /\ (a.last_enriched_at = NULL \/ week_passed)}

\* an UPDATE that stamps the row whatever the fetch gave
EnrichedAnyway(a, success) == [a EXCEPT !.last_enriched_at = "now"]

\* the UPDATE of enrich_application, reached only after a successful fetch
Enriched(a, success) ==
    IF success THEN [a EXCEPT !.last_enriched_at = "now"] ELSE a

\* enrich_application on the rows A; response: the answer of the GitHub API
enrich_application(A, app_id, app_url, response) ==
    LET success == extract_github_info(app_url) /\ response = "200"
    IN [A |-> {IF a.id = app_id THEN Enriched(a, success) ELSE a : a \in A},
        returned |-> success]

RECURSIVE enrich_applications(_, _, _, _)
\* the loop of run_enrichment_batch over the selected rows
enrich_applications(A, apps_to_enrich, responses, returned) ==
    IF apps_to_enrich = {} THEN [A |-> A, returned |-> returned]
    ELSE LET app == CHOOSE a \in apps_to_enrich :
                        a.id = Min({b.id : b \in apps_to_enrich})
             r == enrich_application(A, app.id, app.url, responses[app.id])
         IN enrich_applications(r.A, apps_to_enrich \ {app}, responses,
                                [returned EXCEPT ![app.id] = r.returned])

run_enrichment_batch(week_passed, responses) ==
    /\ MayRunAlone
    /\ ~ClHoldsLock
    /\ enr.pc = "idle"
    /\ LET apps_to_enrich == get_github_apps_to_enrich(platforms, applications,
                                                       week_passed)
           ids == {a.id : a \in apps_to_enrich}
       IN /\ apps_to_enrich # {}
          /\ responses \in [ids -> GithubResponses]
          /\ LET r == enrich_applications(applications, apps_to_enrich, responses,
                                          [id \in ids |-> FALSE])
             IN /\ applications' = r.A
                /\ enr' = [pc |-> "returned", returned |-> r.returned]
    /\ UNCHANGED <<platforms, nextPid, nextAid, github_repositories, uniqueIndex,
                   mode, gh, cl, diVars, fetchVars, cycleVars, toolVars, rateVars>>

\* the caller has read the counts of the batch
EnrichReturn ==
    /\ enr.pc = "returned"
    /\ enr' = EnrRest
    /\ UNCHANGED <<storeVars, diVars, fetchVars, cycleVars, toolVars, rateVars>>

EnrichmentBatch ==
    \E week_passed \in BOOLEAN :
    \E ids \in SUBSET (1..MaxApps) :
    \E responses \in [ids -> GithubResponses] :
        run_enrichment_batch(week_passed, responses)

NextEnrich == Integrate \/ EnrichmentBatch \/ EnrichReturn

SpecEnrich == Init /\ [][NextEnrich]_vars

----------------------------------------------------------------------------
(* update_data.py: GitHubScraper._rate_limit.  The clock counts ticks; the  *)
(* hour of 3600 seconds is scaled to 4 ticks, the second between two        *)
(* requests to 1 tick and the budget of 60 (5000) requests to 2.            *)

MaxClock == 14      \* the clock value after which no call is made

requests_per_hour == 2
hour == 4

\* "Reset counter every hour": current_time - self.hour_start > 3600
HourPassed(r, current_time) == current_time - r.hour_start > hour

\* _rate_limit called at clock value current_time; time.sleep moves the clock
_rate_limit(r, current_time) ==
    LET r1 == IF HourPassed(r, current_time)
              THEN [r EXCEPT !.request_count = 0, !.hour_start = current_time]
              ELSE r
        sleep_time == hour - (current_time - r1.hour_start)
        r2 == IF r1.request_count >= requests_per_hour /\ sleep_time > 0
              THEN [r1 EXCEPT !.now = current_time + sleep_time,
                              !.request_count = 0,
                              !.hour_start = current_time + sleep_time]
              ELSE [r1 EXCEPT !.now = current_time]
        time_since_last == current_time - r.last_request_time
        r3 == IF time_since_last < 1
              THEN [r2 EXCEPT !.now = @ + (1 - time_since_last)]
              ELSE r2
    IN [r3 EXCEPT !.last_request_time = r3.now, !.request_count = @ + 1]

\* the next call of _rate_limit, wait ticks after the last one returned
RateLimitCall(wait) ==
    /\ rl.now + wait <= MaxClock
    /\ rl' = _rate_limit(rl, rl.now + wait)
    /\ UNCHANGED <<storeVars, diVars, fetchVars, cycleVars, toolVars, enrichVars>>

NextRate == \E wait \in 0..(hour + 1) : RateLimitCall(wait)

SpecRate == Init /\ [][NextRate]_vars

----------------------------------------------------------------------------
(* Properties *)

NoOrphans(P, A) == \A a \in A : a.platform_id \in PlatformIds(P)

MergedPairCounts(d) ==
    /\ Cardinality(AppsOf(applications, d.keep_id))
         = Cardinality(AppsOf(cl.pre.A, d.keep_id))
           + Cardinality(AppsOf(cl.pre.A, d.merge_id))
    /\ d.merge_id \notin PlatformIds(platforms)

\* C1: when cleanup_platform_duplicates has committed and the keep_id row of
\* a pair existed beforehand, keep_id owns the N+M applications the two
\* platforms owned before, the merge_id row is gone, and no application row
\* names a platform id that has no row.
MergePostCondition ==
    cl.pc = "committed" =>
        \A i \in 1..Len(duplicates_to_merge) :
            LET d == duplicates_to_merge[i]
            IN d.keep_id \in PlatformIds(cl.pre.P) =>
                   MergedPairCounts(d) /\ NoOrphans(platforms, applications)

\* the part of C1 that the code keeps: the counts and the removal
MergeCountsAndRemoval ==
    cl.pc = "committed" =>
        \A i \in 1..Len(duplicates_to_merge) : MergedPairCounts(duplicates_to_merge[i])

\* C2: a source run that repeats the preceding run (same source, same file)
\* leaves the number of apps rows as it found it.
RerunCreatesNoRows == di_run.repeat => di_run.after = di_run.before

\* C3: for every platform id and every non-empty external identifier at
\* most one application row carries that pair, after any sequence of
\* sequential upserts (checked without help of a storage constraint).
IdentityKeyUnique ==
    \A a \in applications :
        a.external_id \notin {NULL, ""} =>
            Cardinality({b \in applications : b.platform_id = a.platform_id
                                              /\ b.external_id = a.external_id}) = 1

\* a second record with the key of an existing row has been upserted
SecondUpsertSeen ==
    /\ gh[1].out = "updated"
    /\ \E a \in applications : a.platform_id = 6 /\ a.external_id \in ExtIds

\* C4: with independent processes whose SELECTs may both run before either
\* INSERT, no two application rows share (platform_id, external_id) for a
\* non-empty external identifier.
ConcurrentUpsertOneRow ==
    \A a, b \in applications :
        (a.platform_id = b.platform_id /\ a.external_id = b.external_id
         /\ a.external_id \notin {NULL, ""}) => a.id = b.id

\* both processes decided "insert" for one key; the later INSERT was rejected
RaceRejected ==
    \E p \in Procs :
        /\ gh[p].out = "IntegrityError"
        /\ Cardinality({a \in applications : a.platform_id = gh[p].platform_id}) >= 1

\* C5: every application row's platform_id names an existing platform row.
ReferentialIntegrity == NoOrphans(platforms, applications)

\* C6: for a record with a non-empty external identifier the duplicate
\* decision of the ingestion is "duplicate" exactly when a row with the same
\* (platform, external identifier) exists, whatever the urls of the rows.
DedupKeyPriority ==
    \A p \in platforms : p.name \in {"Lovable", "Bolt"} =>
        \A pr \in LovableProjects : pr.id # "" =>
            (VibeDuplicate(applications, p.id, pr.id, pr.url)
             <=> ExtOnlyDuplicate(applications, p.id, pr.id, pr.url))

\* C7: a repeated insert_platform call with a name returns the id the first
\* call with that name returned and removes no platform row.
PlatformUpsertIdStable ==
    di_call.name # "" =>
        (di_call.id = di_call.first[di_call.name] /\ ~di_call.removed)

Lower(name) ==
    CASE name = "Lovable" -> "lovable"
      [] name = "Bolt" -> "bolt"
      [] name = "GitHub" -> "github"
      [] OTHER -> name

PairAllOrNothing(d) ==
    LET owned == {a.id : a \in AppsOf(cl.pre.A, d.merge_id)}
        now(id) == CHOOSE a \in applications : a.id = id
        both == /\ \A id \in owned : now(id).platform_id = d.keep_id
                /\ d.merge_id \notin PlatformIds(platforms)
        neither == /\ \A id \in owned : now(id).platform_id = d.merge_id
                   /\ d.merge_id \in PlatformIds(platforms)
                        <=> d.merge_id \in PlatformIds(cl.pre.P)
    IN both \/ neither

\* C9: from the start of a cleanup run to its return the committed store
\* shows, for every pair, either both effects of the merge (applications
\* re-pointed, merge platform removed) or neither.
MergeAllOrNothing ==
    cl.pc # "idle" =>
        \A i \in 1..Len(duplicates_to_merge) : PairAllOrNothing(duplicates_to_merge[i])

\* the run failed after the UPDATE of a pair that owned applications and
\* before its DELETE
FailedBetweenUpdateAndDelete ==
    /\ cl.pc = "failed"
    /\ cl.at = "delete"
    /\ AppsOf(cl.pre.A, duplicates_to_merge[cl.i].merge_id) # {}

\* C10: when the merge of pair i fails, the pairs merged before it stay
\* committed.
EarlierPairsStayCommitted ==
    cl.pc = "failed" =>
        \A j \in 1..(cl.i - 1) :
            duplicates_to_merge[j].merge_id \in PlatformIds(cl.pre.P)
                => duplicates_to_merge[j].merge_id \notin PlatformIds(platforms)

\* the store a cleanup run starts from after an earlier run succeeded: no
\* merge id has a platform row or owns an application
AlreadyMerged(st) ==
    \A i \in 1..Len(duplicates_to_merge) :
        LET merge_id == duplicates_to_merge[i].merge_id
        IN /\ merge_id \notin PlatformIds(st.P)
           /\ \A a \in st.A : a.platform_id # merge_id

\* C11: a cleanup run that starts from an already merged store raises no
\* error of its own (its UPDATE cannot violate a constraint), executes no
\* UPDATE (total_moved stays 0, so no updated_at is written) and leaves every
\* platform row and every application row as it was, before and after COMMIT.
MergeRerunIsNoOp ==
    (cl.pc # "idle" /\ AlreadyMerged(cl.pre)) =>
        /\ cl.total_moved = 0
        /\ Committed = cl.pre
        /\ ClHoldsLock => cl.tx = cl.pre
        /\ cl.pc = "update" =>
               \A a \in cl.tx.A :
                   a.platform_id = duplicates_to_merge[cl.i].merge_id
                       => ~UniqueViolation(cl.tx.A, duplicates_to_merge[cl.i].keep_id,
                                           a.external_id, a.id)

\* a second run has committed on a store whose applications an earlier run
\* moved to a keep id
RerunCommitted ==
    /\ cl.pc = "committed"
    /\ AlreadyMerged(cl.pre)
    /\ \E a \in applications : \E i \in 1..Len(duplicates_to_merge) :
           a.platform_id = duplicates_to_merge[i].keep_id

RECURSIVE Collected(_, _)
\* number of records the successful requests 1..i of the log brought
Collected(reqs, i) ==
    IF i = 0 THEN 0
    ELSE Collected(reqs, i - 1)
         + (IF reqs[i].status = "200" THEN reqs[i].len ELSE 0)

\* the result-count ceiling of a source; 0: the source declares none
Ceiling(src) ==
    CASE src \in {"jules", "code"} -> search_limit
      [] src = "repos" -> max_pages * per_page
      [] OTHER -> 0

\* request i brought a page after which the pagination has to stop: an empty
\* or short page, a page whose no-more-pages signal is set (hasMore false or
\* no nextCursor, for the API that has them), or the page that fills the
\* ceiling
LastPage(src, reqs, i) ==
    /\ reqs[i].status = "200"
    /\ \/ reqs[i].len < per_page
       \/ src = "lovable" /\ (~reqs[i].has_more \/ ~reqs[i].cursor)
       \/ Ceiling(src) > 0 /\ Collected(reqs, i) >= Ceiling(src)

\* C12: no fetch loop sends a request after the first page that is empty or
\* short, that carries a no-more-pages signal, or that brings the collected
\* total to the source's ceiling.
NoRequestAfterLastPage ==
    \A i \in 1..Len(ft.reqs) : LastPage(ft.src, ft.reqs, i) => i = Len(ft.reqs)

\* the part of C12 that the code keeps: the loops that page by offset or page
\* number stop at the first empty or short page and at the ceiling
NoRequestAfterLastPageByNumber ==
    ft.src # "lovable" => NoRequestAfterLastPage

\* request i was answered 403 and is itself the retry of a 403 for that page
SecondRateLimit(reqs, i) ==
    /\ reqs[i].status = "403"
    /\ i > 1 /\ reqs[i - 1].status = "403" /\ reqs[i - 1].page = reqs[i].page

\* C13: a page answered with a rate-limit response is requested once more
\* and only once: after a first 403 the next request is for the same page,
\* and a 403 for the retry ends the fetch.
RateLimitRetriedOnce ==
    ft.src \in {"code", "jules"} =>
        \A i \in 1..Len(ft.reqs) :
            /\ SecondRateLimit(ft.reqs, i) => (i = Len(ft.reqs) /\ ft.pc = "done")
            /\ (ft.reqs[i].status = "403" /\ ~SecondRateLimit(ft.reqs, i)) =>
                   /\ ft.pc = "done" => i < Len(ft.reqs)
                   /\ i < Len(ft.reqs) => ft.reqs[i + 1].page = ft.reqs[i].page

\* the half of C13 that fails in search_code_files: the same page is never
\* requested a third time because of rate limiting
NoThirdRequestOfAPage ==
    \A i \in 1..Len(ft.reqs) : SecondRateLimit(ft.reqs, i) => i = Len(ft.reqs)

RECURSIVE PagesUpTo(_, _)
\* the records of pages 1..k of a source holding n records, in page order
PagesUpTo(n, k) == IF k = 0 THEN <<>> ELSE PagesUpTo(n, k - 1) \o PageOf(n, k)

\* request i failed with an HTTP error other than a rate limit or with a
\* transport error
PageFailed(reqs, i) == reqs[i].status \in {"500", "transport"}

\* C14: when the request for page k fails irrecoverably, that request is the
\* last one, the fetch has returned, and what it returns is exactly the
\* records of pages 1..k-1 in order.
PartialResultsOnFailure ==
    \A i \in 1..Len(ft.reqs) :
        PageFailed(ft.reqs, i) =>
            /\ i = Len(ft.reqs)
            /\ ft.pc = "done"
            /\ ft.all = PagesUpTo(ft.n, ft.reqs[i].page - 1)

\* a fetch returned after its second or a later page failed, with the
\* records of the pages before it
FailedAfterFirstPage ==
    /\ ft.pc = "done"
    /\ ft.reqs # <<>>
    /\ PageFailed(ft.reqs, Len(ft.reqs))
    /\ ft.reqs[Len(ft.reqs)].page >= 2
    /\ ft.all # <<>>

\* C15: a run_update_cycle returns without an exception and has processed
\* every source whose platform row exists, whatever rows are missing.
UpdateCycleContainsFailures ==
    cyc.state # "none" =>
        (cyc.state = "completed" /\ cyc.present \subseteq cyc.processed)

RECURSIVE WellFormed(_)
\* the file without its malformed elements
WellFormed(file) ==
    IF file = <<>> THEN <<>>
    ELSE IF Head(file) \in {[id |-> Malformed, url |-> NULL], MalformedProject,
                            MalformedItem}
    THEN WellFormed(Tail(file))
    ELSE <<Head(file)>> \o WellFormed(Tail(file))

FilesOf(records) == UNION {[1..n -> records] : n \in 0..MaxFile}

\* C16: an element whose handling raises affects only itself: from every
\* reachable store, ingesting a file leaves the application rows that
\* ingesting the file without its malformed elements leaves (every later
\* record is still examined and, if new, inserted).
PerRecordContainment ==
    /\ \A p \in platforms : p.name = "Lovable" =>
           \A file \in FilesOf(LovableRecords) :
               process_lovable_projects(applications, nextAid, p.id, file).apps
                 = process_lovable_projects(applications, nextAid, p.id,
                                            WellFormed(file)).apps
    /\ \A p \in platforms : p.name = "Bolt" =>
           \A file \in FilesOf(BoltRecords) :
               process_bolt_projects(applications, nextAid, p.id, file).apps
                 = process_bolt_projects(applications, nextAid, p.id,
                                         WellFormed(file)).apps
    /\ \A p \in platforms : p.name = "github.com" =>
           \A file \in FilesOf(GitHubRecords) :
               insert_or_update_applications(applications, nextAid, p.id, file).apps
                 = insert_or_update_applications(applications, nextAid, p.id,
                                                 WellFormed(file)).apps

\* the part of C16 that the code keeps: the per-item try of
\* process_github_search_results
PerItemContainment ==
    \A p \in platforms : p.name = "github.com" =>
        \A file \in FilesOf(GitHubRecords) :
            insert_or_update_applications(applications, nextAid, p.id, file).apps
              = insert_or_update_applications(applications, nextAid, p.id,
                                              WellFormed(file)).apps

\* an item that has none of title, name, url and link
Unaddressable(item) ==
    item.title = NULL /\ item.name = NULL /\ item.url = NULL /\ item.link = NULL

\* C17: an item that lacks title, name, url and link yields no apps row,
\* whatever the store holds.
UnaddressableDropped ==
    \A item \in OriginalItems :
        Unaddressable(item) =>
            insert_app(di_apps, di_seq.apps, di_seq.platforms,
                       NormalizeOriginal(item).url, OriginalName).A = di_apps

\* C18: every insert_app call of the last run returned an id and counted
\* total_processed exactly when it created a row, the id being that row's;
\* a call that created no row returned None and counted duplicates_skipped.
InsertSignalAccurate ==
    \A i \in 1..Len(di_run.calls) :
        LET c == di_run.calls[i]
        IN /\ c.id # 0 <=> c.created
           /\ c.counted = "total_processed" <=> c.created
           /\ c.created => c.id = c.row
           /\ ~c.created => c.counted = "duplicates_skipped"

\* C19: a step that changes the platform_id of an existing application row
\* is the COMMIT of cleanup_platform_duplicates; no ingestion or integration
\* run re-points an application.
OnlyMergeRepoints ==
    [][ \A a \in applications : \A b \in applications' :
            (a.id = b.id /\ a.platform_id # b.platform_id) => cl.pc = "commit" ]_vars

\* the part of C19 that the code keeps: the upserts of process_data.py and
\* integrate_vibe_coding.py leave platform_id alone
UpsertsKeepPlatform ==
    [][ \A a \in applications : \A b \in applications' :
            a.id = b.id => a.platform_id = b.platform_id ]_vars


\* C20: application-to-repository is 1:1: each application row is referenced
\* by at most one github_repositories row and each repository row references
\* an existing application, so two repositories that share a short name
\* (owner1/x and owner2/x) are not attached to the same application
OneRepositoryPerApplication ==
    /\ \A g \in github_repositories :
           \E a \in applications : a.id = g.application_id
    /\ \A g, h \in github_repositories :
           g.application_id = h.application_id => g = h

\* every repository row references an existing application
RepositoryHasApplication ==
    \A g \in github_repositories : \E a \in applications : a.id = g.application_id

\* C21: bulk ingestion is insert-or-skip: no ingestion step changes the url
\* or the name of an application row that already exists (a matching record
\* is skipped and the stored row is left as it was)
BulkIngestionKeepsRows ==
    [][ \A a \in applications : \A b \in applications' :
            a.id = b.id => (a.url = b.url /\ a.name = b.name) ]_vars

\* C22: the merge is safe against a concurrent ingestion process: no
\* committed application row references a platform that the merge utility
\* has deleted, also when an ingestion run resolved the platform id before
\* the merge and writes its applications after it
MergeSafeAgainstIngestion ==
    \A a \in applications : \A i \in DOMAIN duplicates_to_merge :
        a.platform_id = duplicates_to_merge[i].merge_id
            => a.platform_id \in PlatformIds(platforms)

RECURSIVE PagesReceived(_, _, _)
\* the pages of the first k requests that were answered with a page, in
\* request order
PagesReceived(n, reqs, k) ==
    IF k = 0 THEN <<>>
    ELSE PagesReceived(n, reqs, k - 1)
         \o (IF reqs[k].status = "200" THEN PageOf(n, reqs[k].page) ELSE <<>>)

\* C23: pagination is strictly sequential and order-preserving: the i-th
\* request of fetch_all_projects (Bolt, Lovable) and search_repositories is
\* the request for page i (each page at most once, no gaps), and the list
\* held is the concatenation of the pages received, in request order
SequentialPagination ==
    ft.src \in {"bolt", "lovable", "repos"} =>
        /\ \A i \in 1..Len(ft.reqs) : ft.reqs[i].page = i
        /\ ft.all = PagesReceived(ft.n, ft.reqs, Len(ft.reqs))

\* a fetch that returned after two non-empty pages
TwoPagesFetched ==
    /\ ft.src \in {"bolt", "lovable", "repos"}
    /\ ft.pc = "done"
    /\ Len(ft.reqs) >= 2
    /\ ft.reqs[1].len > 0
    /\ ft.reqs[2].len > 0

\* the counters of a run account for every record it read
Accounted(stats) ==
    stats.processed = stats.added + stats.duplicates_skipped + stats.errors

\* C24: the ingestion counters account for every record exactly once: from
\* every reachable store, after process_lovable_projects or
\* process_bolt_projects over a file, processed = added + duplicates skipped
\* + errors
CountersAccountForEveryRecord ==
    /\ \A p \in platforms : p.name = "Lovable" =>
           \A file \in FilesOf(LovableRecords) :
               Accounted(process_lovable_projects(applications, nextAid, p.id,
                                                  file).stats)
    /\ \A p \in platforms : p.name = "Bolt" =>
           \A file \in FilesOf(BoltRecords) :
               Accounted(process_bolt_projects(applications, nextAid, p.id,
                                               file).stats)

\* the part of C24 that the code keeps: the counters of
\* process_lovable_projects, which skips no record uncounted
LovableCountersAccount ==
    \A p \in platforms : p.name = "Lovable" =>
        \A file \in FilesOf(LovableRecords) :
            Accounted(process_lovable_projects(applications, nextAid, p.id,
                                               file).stats)

\* the rows a DataIntegrator source run added are the insert_app calls it
\* counted under total_processed
DiCountersMatchRows ==
    di_run.after - di_run.before
        = Cardinality({i \in 1..Len(di_run.calls) :
                          di_run.calls[i].counted = "total_processed"})

\* C25: the AI-tool association is idempotent with bounded confidence: there
\* is one association row per (application, tool) pair however often the
\* pair is linked, one ai_tools row per name, and every stored confidence
\* lies in [0,1] (0..100 hundredths)
AssociationIdempotent ==
    /\ \A l, m \in application_ai_tools :
           (l.application_id = m.application_id /\ l.ai_tool_id = m.ai_tool_id)
               => l = m
    /\ \A t, u \in ai_tools : t.name = u.name => t = u
    /\ \A l \in application_ai_tools :
           l.confidence_score >= 0 /\ l.confidence_score <= 100

\* an item whose application already carried the association was processed
\* again, with two tools known
LinkedAgain ==
    /\ gh[1].link = "ignored"
    /\ Cardinality(ai_tools) >= 2

\* C26: enrichment never creates or re-identifies applications: a
\* run_enrichment_batch leaves the set of application rows and every row's
\* platform_id, external_id, url and name as they were, and a row for which
\* enrich_application returned False is left entirely unchanged
\* (last_enriched_at included)
EnrichmentKeepsIdentity ==
    [][ (enr.pc = "idle" /\ enr'.pc = "returned") =>
          /\ {a.id : a \in applications'} = {a.id : a \in applications}
          /\ \A a \in applications : \A b \in applications' :
                a.id = b.id =>
                  /\ a.platform_id = b.platform_id
                  /\ a.external_id = b.external_id
                  /\ a.url = b.url
                  /\ a.name = b.name
                  /\ (a.id \in DOMAIN enr'.returned /\ ~enr'.returned[a.id])
                        => a = b ]_vars

\* a batch enriched one application and failed on another
EnrichedOneFailedOne ==
    /\ enr.pc = "returned"
    /\ \E i, j \in DOMAIN enr.returned : enr.returned[i] /\ ~enr.returned[j]
    /\ \E a \in applications : a.last_enriched_at # NULL

\* C27: after any sequence of _rate_limit calls at non-decreasing clock
\* values, request_count does not exceed requests_per_hour, a call made
\* exactly one hour after hour_start included
RateBudgetKept == rl.request_count <= requests_per_hour

\* the budget between two calls that are less than an hour after hour_start
RateBudgetKeptInsideHour ==
    rl.last_request_time - rl.hour_start < hour
        => rl.request_count <= requests_per_hour

\* C28: every scraping job of a run_update_cycle has reached exactly one
\* terminal status, 'completed' or 'failed', when its method returns;
\* completed_at is set only on 'completed'; and a job is 'completed' with
\* items_processed = k only if k items were written to the store
JobLifecycle ==
    \A i \in 1..Len(cyc.jobs) :
        LET job == cyc.jobs[i] IN
        /\ job.status \in {"completed", "failed"}
        /\ job.completed_at # NULL => job.status = "completed"
        /\ job.status = "completed" => job.items_processed = job.written

\* the part of C28 that the code keeps: no job is left 'running' and
\* completed_at goes with 'completed'
JobsReachTerminalStatus ==
    \A i \in 1..Len(cyc.jobs) :
        /\ cyc.jobs[i].status \in {"completed", "failed"}
        /\ cyc.jobs[i].completed_at # NULL <=> cyc.jobs[i].status = "completed"

\* C29: no two apps rows of the DataIntegrator store carry the same url, the
\* empty and the missing url included: at most one record without a url is
\* ever stored
DiUrlUnique ==
    \A a, b \in di_apps : a.url = b.url => a = b

\* the part of C29 that the UNIQUE constraint gives: no two rows carry the
\* same url string, the empty string included
DiUrlStringUnique ==
    \A a, b \in di_apps : SqlEq(a.url, b.url) => a = b

\* the request ceilings: search_repositories sends at most max_pages
\* requests, fetch_all_prs_api and search_code_files send no request once
\* the ceiling of collected results is reached, search_code_files returns at
\* most max_results items, _scrape_paginated_projects asks for pages 2..5 only
RequestCeilings ==
    /\ ft.src = "repos" => Len(ft.reqs) <= max_pages
    /\ (ft.src \in {"jules", "code"} /\ ft.pc = "request") =>
           Len(ft.all) < search_limit
    /\ (ft.src = "code" /\ ft.max_results # 0 /\ ft.pc = "done") =>
           Len(ft.all) <= ft.max_results
    /\ ft.src = "stitch" =>
           \A i \in 1..Len(ft.reqs) : ft.reqs[i].page \in 2..stitch_max_pages

\* C30: the request and result ceilings hold whatever the server answers:
\* the request ceilings above, and search_repositories returns at most
\* max_pages * per_page items
HardCeilings ==
    /\ RequestCeilings
    /\ ft.src = "repos" => Len(ft.all) <= max_pages * per_page

\* the result ceiling of search_repositories while every page the server
\* sends holds at most per_page items
ResultCeilingOnHonestPages ==
    (ft.src = "repos" /\ \A i \in 1..Len(ft.reqs) : ft.reqs[i].len <= per_page)
        => Len(ft.all) <= max_pages * per_page

====
